---- MODULE Spec2Model ----
(***************************************************************************)
(* WaveWatchr_Excel: the alert rules of rules.py and the orchestrator run  *)
(* of fetch_and_write.py (load_config, main) against the sheet gateway of  *)
(* sheet_tools.py.                                                         *)
(*                                                                         *)
(* Numbers are fixed-point integers in hundredths: 13.0 s is 1300, 0.7 ft  *)
(* is 70, 24.99 degrees is 2499.  A cell value is a tagged record          *)
(* [t, v]: t is "none" (Python None), "empty" (the string ""), "text" (a   *)
(* string float() rejects) or "num" (a number, v its hundredths).          *)
(***************************************************************************)
EXTENDS Integers, Sequences, FiniteSets, TLC

VARIABLES
    cfg,            \* the configuration JSON and GOOGLE_SHEET_ID the run starts with
    sheet,          \* the spreadsheet: its tabs, their header rows, the rows this run appended
    pc,             \* main: where the run is
    conf,           \* main: what load_config returned (stations, spreadsheet_id, fields)
    idx,            \* main: the position in stations of the loop at 278
    obs,            \* main: the observation fetched for stations[idx]
    total_matches,  \* main: the per-rule match counters
    wrote_any,      \* main: wrote_any
    sidx,           \* main: the position in ALERT_TABS of the loop at 300
    summary,        \* main: the console summary printed at 305-309
    exc,            \* the exception that ended the run and where it was raised, or none
    exitCode,       \* the exit status of the process, -1 while it runs
    calls,          \* the number of feed requests and of sheet-gateway calls made
    history,        \* per station of the loop, in order: what was fetched and written
    row,            \* rules.py: the record under evaluation
    locals,         \* rules.py: the values the rules resolved from row
    flags,          \* rules.py: the outcome of the three rules on row
    rpc,            \* "idle" before the evaluation, "evaluated" after
    feeds,          \* fetch_latest_observation: the two feed responses of a station
    outcome,        \* fetch_latest_observation: what it raised or returned on feeds
    heading,        \* deg_to_cardinal: its argument
    compass,        \* deg_to_cardinal: what it returned on heading
    metres,         \* m_to_ft: its argument
    feet,           \* round_1(m_to_ft(metres))
    ppc             \* "idle", then "parsed", "labelled" or "converted"

rvars == <<row, locals, flags, rpc>>
ovars == <<cfg, sheet, pc, conf, idx, obs, total_matches, wrote_any, sidx, summary,
           exc, exitCode, calls, history>>
pvars == <<feeds, outcome, heading, compass, metres, feet, ppc>>
vars == <<ovars, rvars, pvars>>

(***************************************************************************)
(* Values                                                                  *)
(***************************************************************************)
None == [t |-> "none", v |-> 0]
Empty == [t |-> "empty", v |-> 0]
Text == [t |-> "text", v |-> 0]
Num(n) == [t |-> "num", v |-> n]

\* The outcome of a Python expression: a value, or an exception that leaves it.
Ret(b) == [exc |-> FALSE, val |-> b]
Raise == [exc |-> TRUE, val |-> FALSE]

\* float(x): TypeError on None, ValueError on "" and on non-numeric text.
PyFloat(x) == IF x.t = "num" THEN [exc |-> FALSE, val |-> x.v] ELSE [exc |-> TRUE, val |-> 0]

\* x >= c with c a float: TypeError when x is None (or a string).
PyGe(x, c) == IF x.t = "num" THEN Ret(x.v >= c) ELSE Raise

\* x > c with c a float.
PyGt(x, c) == IF x.t = "num" THEN Ret(x.v > c) ELSE Raise

(***************************************************************************)
(* rules.py: thresholds                                                    *)
(***************************************************************************)
DIR_MIN == 2500
DIR_MAX == 16000
LP_LONGBOARD_MIN_PERIOD_S == 1300
LP_LONGBOARD_MIN_HEIGHT_FT == 70
LP_SHORTBOARD_MIN_PERIOD_S == 1300
LP_SHORTBOARD_MIN_HEIGHT_FT == 160
SP_MIN_WVHT_FT == 300

(***************************************************************************)
(* rules.py: field resolution                                              *)
(***************************************************************************)
PeriodKeys == <<"swell_period_s", "SwP", "dominant_period_s", "DPD">>
HeightKeys == <<"swell_height_ft", "SwH_ft", "SwH", "wave_height_ft", "WVHT_ft", "WVHT">>
SwellDirKeys == <<"swell_dir_deg_true", "SwD_deg", "mean_wave_dir_deg", "MWD", "wind_dir_deg">>
MeanDirKeys == <<"mean_wave_dir_deg", "MWD", "wind_dir_deg">>
WvhtKeys == <<"wave_height_ft", "WVHT_ft", "WVHT">>

\* _get_num giving up at the first alias whose value float() rejects.
RECURSIVE _get_num_no_fallthrough(_, _)
_get_num_no_fallthrough(r, keys) ==
    IF keys = <<>> THEN None
    ELSE LET k == Head(keys) IN
         IF k \in DOMAIN r /\ r[k].t \notin {"none", "empty"}
         THEN LET f == PyFloat(r[k]) IN
              IF f.exc THEN None ELSE Num(f.val)
         ELSE _get_num_no_fallthrough(r, Tail(keys))

RECURSIVE _get_num(_, _)
_get_num(r, keys) ==
    IF keys = <<>> THEN None
    ELSE LET k == Head(keys) IN
         IF k \in DOMAIN r /\ r[k].t \notin {"none", "empty"}
         THEN LET f == PyFloat(r[k]) IN
              IF f.exc THEN _get_num(r, Tail(keys)) ELSE Num(f.val)
         ELSE _get_num(r, Tail(keys))

\* _deg_in_window without its try/except around float(deg).
_deg_in_window_uncaught(deg) ==
    LET d == PyFloat(deg) IN
    IF d.exc THEN Raise ELSE Ret(DIR_MIN <= d.val /\ d.val <= DIR_MAX)

_deg_in_window(deg) ==
    LET d == PyFloat(deg) IN
    IF d.exc THEN Ret(FALSE) ELSE Ret(DIR_MIN <= d.val /\ d.val <= DIR_MAX)

_swell_period_s(r) == _get_num(r, PeriodKeys)
_swell_height_ft(r) == _get_num(r, HeightKeys)
_swell_dir_deg(r) == _get_num(r, SwellDirKeys)
_mean_wave_dir_deg(r) == _get_num(r, MeanDirKeys)

\* a and b, b evaluated only when a is true; an exception in either leaves it.
PyAnd(a, b) == IF a.exc THEN Raise ELSE IF ~a.val THEN Ret(FALSE) ELSE b

\* is_long_period_longboard with a strict height comparison.
is_long_period_longboard_strict(r) ==
    LET period_s == _swell_period_s(r)
        height_ft == _swell_height_ft(r)
        dir_deg == _swell_dir_deg(r)
    IN PyAnd(Ret(period_s # None),
       PyAnd(PyGe(period_s, LP_LONGBOARD_MIN_PERIOD_S),
       PyAnd(Ret(height_ft # None),
       PyAnd(PyGt(height_ft, LP_LONGBOARD_MIN_HEIGHT_FT),
             _deg_in_window(dir_deg)))))

is_long_period_longboard(r) ==
    LET period_s == _swell_period_s(r)
        height_ft == _swell_height_ft(r)
        dir_deg == _swell_dir_deg(r)
    IN PyAnd(Ret(period_s # None),
       PyAnd(PyGe(period_s, LP_LONGBOARD_MIN_PERIOD_S),
       PyAnd(Ret(height_ft # None),
       PyAnd(PyGe(height_ft, LP_LONGBOARD_MIN_HEIGHT_FT),
             _deg_in_window(dir_deg)))))

\* is_long_period_shortboard reading the total wave height, as
\* is_short_period_all does, in place of the swell-first height.
is_long_period_shortboard_wvht(r) ==
    LET period_s == _swell_period_s(r)
        height_ft == _get_num(r, WvhtKeys)
        dir_deg == _swell_dir_deg(r)
    IN PyAnd(Ret(period_s # None),
       PyAnd(PyGe(period_s, LP_SHORTBOARD_MIN_PERIOD_S),
       PyAnd(Ret(height_ft # None),
       PyAnd(PyGe(height_ft, LP_SHORTBOARD_MIN_HEIGHT_FT),
             _deg_in_window(dir_deg)))))

is_long_period_shortboard(r) ==
    LET period_s == _swell_period_s(r)
        height_ft == _swell_height_ft(r)
        dir_deg == _swell_dir_deg(r)
    IN PyAnd(Ret(period_s # None),
       PyAnd(PyGe(period_s, LP_SHORTBOARD_MIN_PERIOD_S),
       PyAnd(Ret(height_ft # None),
       PyAnd(PyGe(height_ft, LP_SHORTBOARD_MIN_HEIGHT_FT),
             _deg_in_window(dir_deg)))))

is_short_period_all(r) ==
    LET wvht_ft == _get_num(r, WvhtKeys)
        dir_deg == _mean_wave_dir_deg(r)
    IN PyAnd(Ret(wvht_ft # None),
       PyAnd(PyGt(wvht_ft, SP_MIN_WVHT_FT),
             _deg_in_window(dir_deg)))

longboard_ok(r) == is_long_period_longboard(r)
shortboard_ok(r) == is_long_period_shortboard(r)
short_period_ok(r) == is_short_period_all(r)

RuleNames == <<"Longboard", "Shortboard", "Short Period">>
Rules == {"Longboard", "Shortboard", "Short Period"}

RULE_FUNCS(r) ==
    [n \in Rules |-> CASE n = "Longboard" -> longboard_ok(r)
                       [] n = "Shortboard" -> shortboard_ok(r)
                       [] OTHER -> short_period_ok(r)]

(***************************************************************************)
(* The records the rules are evaluated on.  One field group (period,       *)
(* height or direction) carries up to MaxAliases of its aliases, each with *)
(* any value; each other group carries at most its general key, with a     *)
(* number on a threshold or past it.                                       *)
(***************************************************************************)
MaxAliases == 3

Range(s) == {s[i] : i \in 1..Len(s)}
Junk == {None, Empty, Text}
PeriodVals == {Num(1299), Num(1300)}
HeightVals == {Num(69), Num(70), Num(160), Num(300), Num(310)}
DirVals == {Num(2499), Num(2500), Num(16000), Num(16001)}
OtherPeriodVals == {Num(1300)}
OtherHeightVals == {Num(70), Num(300), Num(310)}
OtherDirVals == {Num(2500), Num(16000)}

EmptyRow == [k \in {} |-> None]
Group(keys, vals) ==
    UNION {[S -> vals \cup Junk] : S \in {T \in SUBSET Range(keys) : Cardinality(T) <= MaxAliases}}
Single(key, vals) == {EmptyRow} \cup {(key :> x) : x \in vals}

Groups == {"period", "height", "direction"}
PeriodPart(g) ==
    IF g = "period" THEN Group(PeriodKeys, PeriodVals) ELSE Single("dominant_period_s", OtherPeriodVals)
HeightPart(g) ==
    IF g = "height" THEN Group(HeightKeys, HeightVals) ELSE Single("wave_height_ft", OtherHeightVals)
DirPart(g) ==
    IF g = "direction" THEN Group(SwellDirKeys, DirVals) ELSE Single("mean_wave_dir_deg", OtherDirVals)

NoFlags == [n \in Rules |-> Ret(FALSE)]

\* The local variables of the three rule functions.
Locals(r) ==
    [period_s |-> _swell_period_s(r),
     height_ft |-> _swell_height_ft(r),
     dir_deg |-> _swell_dir_deg(r),
     wvht_ft |-> _get_num(r, WvhtKeys),
     sp_dir_deg |-> _mean_wave_dir_deg(r)]

RInit == row = EmptyRow /\ locals = Locals(EmptyRow) /\ flags = NoFlags /\ rpc = "idle"

\* One evaluation of the three rules on one record.
Evaluate ==
    /\ rpc = "idle"
    /\ \E g \in Groups :
          \E p \in PeriodPart(g), h \in HeightPart(g), d \in DirPart(g) :
             /\ row' = p @@ h @@ d
             /\ locals' = Locals(p @@ h @@ d)
             /\ flags' = RULE_FUNCS(p @@ h @@ d)
    /\ rpc' = "evaluated"
    /\ UNCHANGED <<ovars, pvars>>

(***************************************************************************)
(* fetch_and_write.py: constants                                           *)
(***************************************************************************)
RAW_TAB == "buoy_data"
ALERT_TABS ==
    [n \in Rules |-> CASE n = "Longboard" -> "Longboard Alert"
                       [] n = "Shortboard" -> "Shortboard Alert"
                       [] OTHER -> "Short Period Alert"]
AllTabs == {RAW_TAB} \cup {ALERT_TABS[n] : n \in Rules}
\* The order main ensures the tabs in: the raw tab, then ALERT_TABS.values().
TabOrder == <<RAW_TAB>> \o [i \in 1..Len(RuleNames) |-> ALERT_TABS[RuleNames[i]]]

DEFAULT_FIELDS ==
    <<"timestamp_utc", "station_id", "wave_height_ft", "dominant_period_s", "wind_dir_deg",
      "wind_speed_kt", "swell_height_ft", "swell_period_s", "wind_direction">>

(***************************************************************************)
(* Strings are sequences of characters, so that str.strip() is computed.   *)
(***************************************************************************)
MaxStrLen == 1
MaxStations == 2

Chars == {" ", "7"}
Strings == UNION {[1..n -> Chars] : n \in 0..MaxStrLen}

RECURSIVE LStrip(_)
LStrip(s) == IF s # <<>> /\ Head(s) = " " THEN LStrip(Tail(s)) ELSE s
RECURSIVE RStrip(_)
RStrip(s) == IF s # <<>> /\ s[Len(s)] = " " THEN RStrip(SubSeq(s, 1, Len(s) - 1)) ELSE s
strip(s) == RStrip(LStrip(s))

(***************************************************************************)
(* fetch_and_write.py: load_config                                         *)
(***************************************************************************)
\* A JSON value of the configuration, or an environment variable: absent, a
\* string, a list of strings, or a value of another type (null, a number).
Absent == [t |-> "absent", v |-> <<>>]
Other == [t |-> "other", v |-> <<>>]
Str(s) == [t |-> "str", v |-> s]
List(l) == [t |-> "list", v |-> l]

\* [str(s).strip() for s in l if str(s).strip()]
RECURSIVE StripNonBlank(_)
StripNonBlank(l) ==
    IF l = <<>> THEN <<>>
    ELSE IF strip(Head(l)) # <<>> THEN <<strip(Head(l))>> \o StripNonBlank(Tail(l))
    ELSE StripNonBlank(Tail(l))

load_config(c) ==
    LET stations ==
            IF c.stations.t = "list" THEN StripNonBlank(c.stations.v)
            ELSE IF c.station_id.t = "str" /\ strip(c.station_id.v) # <<>>
                 THEN <<strip(c.station_id.v)>>
                 ELSE <<>>
        spreadsheet_id ==
            IF c.env_sheet.t = "str" /\ c.env_sheet.v # <<>> THEN c.env_sheet.v
            ELSE IF c.spreadsheet_id.t = "absent" THEN <<>>
            ELSE strip(c.spreadsheet_id.v)
        fields ==
            IF c.fields.t = "list" /\ c.fields.v # <<>> THEN c.fields.v ELSE DEFAULT_FIELDS
        result(e) == [exc |-> e, stations |-> stations, spreadsheet_id |-> spreadsheet_id,
                      fields |-> fields]
    IN IF ~c.readable THEN result("ConfigUnreadable")
       ELSE IF c.stations.t # "list" /\ c.station_id.t = "absent" THEN result("KeyError")
       ELSE IF (c.env_sheet.t # "str" \/ c.env_sheet.v = <<>>) /\ c.spreadsheet_id.t = "other"
            THEN result("AttributeError")
       ELSE IF spreadsheet_id = <<>> THEN result("KeyError")
       ELSE result("none")

(***************************************************************************)
(* fetch_and_write.py: helpers                                             *)
(***************************************************************************)
\* The hundredths h ending in 5 and below 1000 for which Python's
\* round(h / 100, 1) goes up: the double nearest to h / 100 decides.
TiesUp ==
    {5, 45, 55, 65, 75, 105, 135, 155, 175, 185, 235, 245, 275, 285, 295,
     335, 345, 375, 385, 395, 415, 445, 465, 475, 495, 515, 545, 565, 575,
     595, 615, 645, 665, 675, 695, 715, 745, 765, 775, 795, 805, 815, 855,
     865, 875, 905, 915, 955, 965, 975}

round_1(x) ==
    IF x = None THEN None
    ELSE LET h == x.v
             down == h - (h % 10)
         IN IF h % 10 < 5 THEN Num(down)
            ELSE IF h % 10 > 5 \/ h \in TiesUp THEN Num(down + 10)
            ELSE Num(down)

\* [obs.get(key) for key in fields]
build_row(fields, o) ==
    [i \in 1..Len(fields) |-> IF fields[i] \in DOMAIN o THEN o[fields[i]] ELSE None]

any_alerts_for_row(row_dict) == RULE_FUNCS(row_dict)

(***************************************************************************)
(* fetch_and_write.py: the feeds and their parse                           *)
(*                                                                         *)
(* A feed line is the sequence of its whitespace-separated tokens.  A      *)
(* token is an integer literal (IntTok), a decimal literal (Num, hundredths), *)
(* the missing-value token MM, or other text.  Metres, seconds, degrees    *)
(* and metres per second are all in hundredths.                            *)
(***************************************************************************)
MM == [t |-> "MM", v |-> 0]
IntTok(n) == [t |-> "int", v |-> n]
\* A compass label, v its index in dirs counted from 0.
Label(ix) == [t |-> "label", v |-> ix]
\* An ISO timestamp, v the minutes of its date and time fields.
Time(n) == [t |-> "time", v |-> n]

FT_PER_M == 328084

\* int(x): ValueError unless x is an integer literal.
PyInt(x) == IF x.t = "int" THEN [exc |-> FALSE, val |-> x.v] ELSE [exc |-> TRUE, val |-> 0]

DaysIn(y, mo) ==
    IF mo \in {4, 6, 9, 11} THEN 30
    ELSE IF mo # 2 THEN 31
    ELSE IF y % 4 = 0 /\ (y % 100 # 0 \/ y % 400 = 0) THEN 29 ELSE 28

\* datetime(year, mo, dy, hr, mn, tzinfo=utc).isoformat(): ValueError on a
\* field out of range.
to_iso_utc(year, mo, dy, hr, mn) ==
    IF year \in 1..9999 /\ mo \in 1..12 /\ dy \in 1..DaysIn(year, mo)
       /\ hr \in 0..23 /\ mn \in 0..59
    THEN [exc |-> FALSE,
          val |-> Time(((((year - 2000) * 13 + mo) * 32 + dy) * 24 + hr) * 60 + mn)]
    ELSE [exc |-> TRUE, val |-> None]

dirs ==
    <<"N", "NNE", "NE", "ENE", "E", "ESE", "SE", "SSE",
      "S", "SSW", "SW", "WSW", "W", "WNW", "NW", "NNW">>

\* deg_to_cardinal with round() in place of int(... + 0.5): ties go to the even index.
deg_to_cardinal_round(deg) ==
    IF deg = None THEN None
    ELSE LET twice == 2 * (deg.v % 36000)
             q == twice \div 4500
             r == twice % 4500
             ix == IF r > 2250 \/ (r = 2250 /\ q % 2 = 1) THEN q + 1 ELSE q
         IN Label(ix % 16)

\* ix = int((deg % 360) / 22.5 + 0.5) % 16
deg_to_cardinal(deg) ==
    IF deg = None THEN None
    ELSE Label(((2 * (deg.v % 36000) + 2250) \div 4500) % 16)

safe_float(x) ==
    IF x.t = "int" THEN Num(x.v * 100)
    ELSE IF x.t = "num" THEN x
    ELSE None

\* round(x_m * FT_PER_M, 2): hundredths of a metre to hundredths of a foot.
m_to_ft(x_m) ==
    IF x_m = None THEN None
    ELSE Num((x_m.v * FT_PER_M + 50000) \div 100000)

\* A feed response: the HTTP status and the lines of the body.
Comment == [kind |-> "comment", parts |-> <<>>]
EmptyLine == [kind |-> "empty", parts |-> <<>>]
Data(parts) == [kind |-> "data", parts |-> parts]
Feed(lines) == [status |-> "ok", lines |-> lines]
FeedError == [status |-> "error", lines |-> <<>>]

\* The first line that is neither empty nor a comment, or None.
_fetch_last_data_line(feed) ==
    LET lines == SelectSeq(feed.lines, LAMBDA ln : ln.kind = "data") IN
    IF feed.status = "error" THEN [exc |-> TRUE, found |-> FALSE, parts |-> <<>>]
    ELSE IF lines = <<>> THEN [exc |-> FALSE, found |-> FALSE, parts |-> <<>>]
    ELSE [exc |-> FALSE, found |-> TRUE, parts |-> lines[1].parts]

\* The part of the result the standard file sets (180-213).
ParseStd(parts) ==
    LET ints == [i \in 1..5 |-> PyInt(parts[i])]
        yr == ints[1].val
        ts == to_iso_utc(IF yr < 100 THEN 2000 + yr ELSE yr, ints[2].val, ints[3].val,
                         ints[4].val, ints[5].val)
        wdir == safe_float(parts[6])
        wspd == safe_float(parts[7])
        wvht_m == safe_float(parts[9])
        dpd == safe_float(parts[10])
        mwd == IF Len(parts) > 11 THEN safe_float(parts[12]) ELSE None
        wind_speed_kt ==
            IF wspd # None THEN Num(((wspd.v * 194384 + 5000000) \div 10000000) * 100)
            ELSE None
    IN IF \E i \in 1..5 : ints[i].exc THEN [exc |-> TRUE, val |-> EmptyRow]
       ELSE IF ts.exc THEN [exc |-> TRUE, val |-> EmptyRow]
       ELSE [exc |-> FALSE,
             val |-> [k \in {"timestamp_utc", "wave_height_ft", "dominant_period_s",
                             "wind_dir_deg", "wind_speed_kt", "wind_direction",
                             "mean_wave_dir_deg"} |->
                        CASE k = "timestamp_utc" -> ts.val
                          [] k = "wave_height_ft" -> round_1(m_to_ft(wvht_m))
                          [] k = "dominant_period_s" -> round_1(dpd)
                          [] k = "wind_dir_deg" -> wdir
                          [] k = "wind_speed_kt" -> wind_speed_kt
                          [] k = "wind_direction" -> deg_to_cardinal(wdir)
                          [] OTHER -> mwd]]

\* The merge of the spectral file into the result, the spectral total height
\* and mean direction replacing the ones of the standard file (the reverse of
\* 235-238).
MergeSpec_spectral_first(result, parts) ==
    LET wvht_m == safe_float(parts[6])
        swh_m == safe_float(parts[7])
        swp_s == safe_float(parts[8])
        mwd == safe_float(parts[Len(parts)])
        r1 == ("swell_height_ft" :> round_1(m_to_ft(swh_m)))
                @@ ("swell_period_s" :> round_1(swp_s)) @@ result
        r2 == IF wvht_m # None \/ "wave_height_ft" \notin DOMAIN r1
              THEN ("wave_height_ft" :> round_1(m_to_ft(wvht_m))) @@ r1
              ELSE r1
    IN IF mwd # None THEN ("mean_wave_dir_deg" :> mwd) @@ r2 ELSE r2

\* The merge of the spectral file into the result (222-238).
MergeSpec(result, parts) ==
    LET wvht_m == safe_float(parts[6])
        swh_m == safe_float(parts[7])
        swp_s == safe_float(parts[8])
        mwd == safe_float(parts[Len(parts)])
        r1 == ("swell_height_ft" :> round_1(m_to_ft(swh_m)))
                @@ ("swell_period_s" :> round_1(swp_s)) @@ result
        r2 == IF "wave_height_ft" \notin DOMAIN r1 \/ r1["wave_height_ft"] = None
              THEN ("wave_height_ft" :> round_1(m_to_ft(wvht_m))) @@ r1
              ELSE r1
    IN IF ("mean_wave_dir_deg" \notin DOMAIN r2 \/ r2["mean_wave_dir_deg"] = None)
          /\ mwd # None
       THEN ("mean_wave_dir_deg" :> mwd) @@ r2
       ELSE r2

\* fetch_latest_observation: the exception that leaves it, or the result.
fetch_latest_observation(std_feed, spec_feed) ==
    LET std_line == _fetch_last_data_line(std_feed)
        spec_line == _fetch_last_data_line(spec_feed)
        r0 == ("station_id" :> Text)
        std == IF std_line.found /\ Len(std_line.parts) >= 11
               THEN ParseStd(std_line.parts)
               ELSE [exc |-> FALSE, val |-> EmptyRow]
        r1 == std.val @@ r0
        r2 == IF spec_line.found /\ Len(spec_line.parts) >= 10
              THEN MergeSpec(r1, spec_line.parts)
              ELSE r1
    IN IF std_line.exc THEN [exc |-> "RequestException", requests |-> 1, val |-> EmptyRow]
       ELSE IF spec_line.exc THEN [exc |-> "RequestException", requests |-> 2, val |-> EmptyRow]
       ELSE IF std.exc THEN [exc |-> "ValueError", requests |-> 2, val |-> EmptyRow]
       ELSE [exc |-> "none", requests |-> 2, val |-> r2]

(***************************************************************************)
(* The feed responses fetch_latest_observation is run on: a standard file  *)
(* and a spectral file, each failing, empty, header only, or up to         *)
(* MaxHeaderLines comment lines, an empty line, the newest data line and   *)
(* an older one.                                                           *)
(***************************************************************************)
MaxHeaderLines == 2

GoodDate == <<IntTok(24), IntTok(1), IntTok(15), IntTok(12), IntTok(0)>>
WdirToks == {MM, IntTok(90), IntTok(270)}
WspdToks == {MM, Num(500)}
WvhtToks == {MM, Num(93), Num(150)}
DpdToks == {MM, Num(1350)}
MwdToks == {MM, IntTok(90), IntTok(200)}

\* YY MM DD hh mm WDIR WSPD GST WVHT DPD APD MWD
StdLine(date, wdir, wspd, wvht, dpd, mwd) == date \o <<wdir, wspd, MM, wvht, dpd, MM, mwd>>
OlderStdLine == StdLine(GoodDate, IntTok(180), Num(300), Num(200), Num(800), IntTok(180))
StdLines ==
    {StdLine(GoodDate, wdir, wspd, wvht, dpd, mwd) :
        wdir \in WdirToks, wspd \in WspdToks, wvht \in WvhtToks, dpd \in DpdToks,
        mwd \in MwdToks}
    \cup {StdLine(date, IntTok(90), Num(500), Num(150), Num(1350), IntTok(90)) :
            date \in {<<IntTok(24), Text, IntTok(15), IntTok(12), IntTok(0)>>,
                      <<Num(2400), IntTok(1), IntTok(15), IntTok(12), IntTok(0)>>,
                      <<IntTok(24), IntTok(13), IntTok(15), IntTok(12), IntTok(0)>>,
                      <<IntTok(23), IntTok(2), IntTok(29), IntTok(12), IntTok(0)>>,
                      <<IntTok(2024), IntTok(2), IntTok(29), IntTok(23), IntTok(59)>>}}
    \cup {SubSeq(OlderStdLine, 1, n) : n \in {0, 4, 10, 11}}

SWvhtToks == {MM, Num(160)}
SwhToks == {MM, Num(50)}
SwpToks == {MM, Num(1400)}
SMwdToks == {MM, IntTok(120)}

\* YY MM DD hh mm WVHT SwH SwP WWH WWP SwD WWD STEEPNESS APD MWD
SpecLine(wvht, swh, swp, wwp, mwd) ==
    GoodDate \o <<wvht, swh, swp, MM, wwp, Text, Text, Text, MM, mwd>>
OlderSpecLine == SpecLine(Num(200), Num(100), Num(800), Num(400), IntTok(180))
SpecLines ==
    {SpecLine(wvht, swh, swp, MM, mwd) :
        wvht \in SWvhtToks, swh \in SwhToks, swp \in SwpToks, mwd \in SMwdToks}
    \cup {SubSeq(OlderSpecLine, 1, n) : n \in {0, 9, 10}}

Header(n) == [i \in 1..n |-> Comment]
FeedsOf(lines, older) ==
    {FeedError, Feed(<<>>)}
    \cup {Feed(Header(n)) : n \in 1..MaxHeaderLines}
    \cup {Feed(Header(n) \o <<EmptyLine, Data(l), Data(older)>>) :
            n \in 0..MaxHeaderLines, l \in lines}
StdFeeds == FeedsOf(StdLines, OlderStdLine)
SpecFeeds == FeedsOf(SpecLines, OlderSpecLine)

\* The directions deg_to_cardinal is run on: the multiples of 11.25 degrees up
\* to past a full turn, and the hundredth below and above each.
MaxDegSteps == 34
Degs == {None} \cup {Num(k * 1125 + e) : k \in 0..MaxDegSteps, e \in {-1, 0, 1}}

\* The heights m_to_ft is run on: the hundredths of a metre up to this one.
MaxCentimetres == 300
Heights == {None} \cup {Num(m) : m \in 0..MaxCentimetres}

NoFeeds == [std |-> Feed(<<>>), spec |-> Feed(<<>>)]
PInit ==
    /\ feeds = NoFeeds
    /\ outcome = [exc |-> "none", requests |-> 0, val |-> EmptyRow]
    /\ heading = None
    /\ compass = None
    /\ metres = None
    /\ feet = None
    /\ ppc = "idle"

\* One call of fetch_latest_observation.
ParseFeeds ==
    /\ ppc = "idle"
    /\ \E std \in StdFeeds, spec \in SpecFeeds :
          /\ feeds' = [std |-> std, spec |-> spec]
          /\ outcome' = fetch_latest_observation(std, spec)
    /\ ppc' = "parsed"
    /\ UNCHANGED <<heading, compass, metres, feet>>
    /\ UNCHANGED <<ovars, rvars>>

\* One call of deg_to_cardinal.
Cardinal ==
    /\ ppc = "idle"
    /\ \E d \in Degs : heading' = d /\ compass' = deg_to_cardinal(d)
    /\ ppc' = "labelled"
    /\ UNCHANGED <<feeds, outcome, metres, feet>>
    /\ UNCHANGED <<ovars, rvars>>

\* One conversion of a height of a feed, round_1(m_to_ft(x)) (198, 233, 236).
Convert ==
    /\ ppc = "idle"
    /\ \E m \in Heights : metres' = m /\ feet' = round_1(m_to_ft(m))
    /\ ppc' = "converted"
    /\ UNCHANGED <<feeds, outcome, heading, compass>>
    /\ UNCHANGED <<ovars, rvars>>

(***************************************************************************)
(* sheet_tools.py: the gateway                                             *)
(***************************************************************************)
\* get_sheets_service called with `given` positional arguments where the
\* function bound by `from sheet_tools import get_sheets_service` requires
\* `required` of them.
get_sheets_service(required, given, creds_valid) ==
    IF given # required THEN "TypeError"
    ELSE IF creds_valid THEN "service"
    ELSE "CredentialsError"

\* The number of arguments the get_sheets_service that main imports requires:
\* the one of sheet_tools.py requires sa_path (1), and main calls it with none,
\* as written against a gateway whose get_sheets_service requires nothing (0).
ServiceParams == {0, 1}

ensure_tab(sh, title, header) ==
    [titles |-> sh.titles \cup {title},
     header |-> IF header # <<>> /\ sh.header[title] = <<>>
                THEN [sh.header EXCEPT ![title] = header]
                ELSE sh.header,
     rows |-> sh.rows]

append_rows(sh, title, rows) ==
    IF rows = <<>> THEN sh ELSE [sh EXCEPT !.rows[title] = @ \o rows]

StatusRow == [kind |-> "status", station |-> <<>>, cells |-> <<>>]
DataRow(station, cells) == [kind |-> "data", station |-> station, cells |-> cells]

write_status(sh, title) == [sh EXCEPT !.rows[title] = Append(@, StatusRow)]

(***************************************************************************)
(* The run of main                                                         *)
(***************************************************************************)
NoExc == [name |-> "none", at |-> "none"]
NoConf == [stations |-> <<>>, spreadsheet_id |-> <<>>, fields |-> <<>>]
ZeroMatches == [n \in Rules |-> 0]

\* The configurations a run starts with: every station list with a good
\* destination, a station_id beside a list, every station_id with no list,
\* every destination with a good station list, every shape of the fields key,
\* and a configuration that cannot be read.
GoodId == <<"7">>
StationLists == UNION {[1..n -> Strings] : n \in 0..MaxStations}
Config(st, sid, sp, fl, env) ==
    [readable |-> TRUE, stations |-> st, station_id |-> sid, spreadsheet_id |-> sp,
     fields |-> fl, env_sheet |-> env]
Configs ==
    {Config(List(l), Absent, Str(GoodId), Absent, Absent) : l \in StationLists}
    \cup {Config(List(l), Str(GoodId), Str(GoodId), Absent, Absent) : l \in {<<>>, <<GoodId>>}}
    \cup {Config(st, sid, Str(GoodId), Absent, Absent) :
        st \in {Absent, Other}, sid \in {Absent} \cup {Str(s) : s \in Strings}}
    \cup {Config(List(<<GoodId>>), Absent, sp, Absent, env) :
        sp \in {Absent, Other} \cup {Str(s) : s \in Strings},
        env \in {Absent, Str(<<>>), Str(GoodId)}}
    \cup {Config(List(<<GoodId>>), Absent, Str(GoodId), fl, Absent) :
        fl \in {Other, List(<<>>), List(<<"station_id", "mean_wave_dir_deg">>)}}
    \cup {[Config(Absent, Absent, Absent, Absent, Absent) EXCEPT !.readable = FALSE]}

\* The spreadsheet before the run: without the tabs, or with the four tabs and
\* their header rows.  Only the rows this run appends are kept.
FreshSheet == [titles |-> {}, header |-> [t \in AllTabs |-> <<>>], rows |-> [t \in AllTabs |-> <<>>]]
UsedSheet ==
    [titles |-> AllTabs, header |-> [t \in AllTabs |-> DEFAULT_FIELDS],
     rows |-> [t \in AllTabs |-> <<>>]]

\* What fetch_latest_observation returns for a station whose feeds have a
\* data row: the keys it sets, the numbers None where the feed has MM.
ObsKeys ==
    {"station_id", "timestamp_utc", "wave_height_ft", "dominant_period_s", "wind_dir_deg",
     "wind_speed_kt", "wind_direction", "mean_wave_dir_deg", "swell_height_ft",
     "swell_period_s"}
MkObs(wvht, dpd, wdir, mwd, swh, swp) ==
    [k \in ObsKeys |->
        CASE k = "wave_height_ft" -> wvht
          [] k = "dominant_period_s" -> dpd
          [] k = "wind_dir_deg" -> wdir
          [] k = "mean_wave_dir_deg" -> mwd
          [] k = "swell_height_ft" -> swh
          [] k = "swell_period_s" -> swp
          [] k = "wind_speed_kt" -> None
          [] OTHER -> Text]
Observations ==
    {MkObs(Num(150), Num(800), Num(20000), Num(20000), Num(50), Num(800)),
     MkObs(Num(200), Num(1400), Num(27000), Num(9000), Num(100), Num(1400)),
     MkObs(Num(400), Num(1500), Num(9000), Num(9000), Num(250), Num(1500)),
     MkObs(Num(350), Num(700), Num(4500), Num(4500), None, None),
     MkObs(None, None, None, None, None, None)}

\* Responses of a station with no usable data row: empty files, a header
\* and nothing else, a newest row of four columns, a first column that is no
\* number.
UnusableFeeds ==
    {[std |-> Feed(<<>>), spec |-> Feed(<<>>)],
     [std |-> Feed(Header(MaxHeaderLines)), spec |-> Feed(Header(MaxHeaderLines))],
     [std |-> Feed(Header(MaxHeaderLines) \o <<Data(SubSeq(OlderStdLine, 1, 4))>>),
      spec |-> Feed(<<>>)],
     [std |-> Feed(<<Data(<<Text>> \o Tail(OlderStdLine))>>), spec |-> Feed(<<>>)]}

\* What the two feed requests and the parse of their first lines come to.
FeedOutcomes ==
    {[kind |-> k, obs |-> EmptyRow, usable |-> TRUE] :
        k \in {"std_error", "spec_error", "parse_error"}}
    \cup {[kind |-> "obs", obs |-> o, usable |-> TRUE] : o \in Observations}
    \cup {LET r == fetch_latest_observation(f.std, f.spec) IN
          [kind |-> IF r.exc = "none" THEN "obs" ELSE "parse_error", obs |-> r.val,
           usable |-> FALSE] : f \in UnusableFeeds}

OInit ==
    /\ cfg \in Configs
    /\ sheet \in {FreshSheet, UsedSheet}
    /\ pc = "load_config"
    /\ conf = NoConf
    /\ idx = 0
    /\ obs = EmptyRow
    /\ total_matches = ZeroMatches
    /\ wrote_any = FALSE
    /\ sidx = 0
    /\ summary = "none"
    /\ exc = NoExc
    /\ exitCode = -1
    /\ calls = [feed |-> 0, sheet |-> 0]
    /\ history = <<>>

\* An uncaught exception: the traceback is printed and the process exits 1.
Crash(name) ==
    /\ exc' = [name |-> name, at |-> pc]
    /\ pc' = "exit"
    /\ exitCode' = 1

\* main 262-265
LoadConfig ==
    /\ pc = "load_config"
    /\ LET r == load_config(cfg) IN
       IF r.exc # "none"
       THEN Crash(r.exc) /\ UNCHANGED conf
       ELSE /\ conf' = [stations |-> r.stations, spreadsheet_id |-> r.spreadsheet_id,
                        fields |-> r.fields]
            /\ pc' = "get_service"
            /\ UNCHANGED <<exc, exitCode>>
    /\ UNCHANGED <<cfg, sheet, idx, obs, total_matches, wrote_any, sidx, summary, calls,
                   history>>
    /\ UNCHANGED <<rvars, pvars>>

\* main 267
GetService ==
    /\ pc = "get_service"
    /\ \E required \in ServiceParams, creds_valid \in BOOLEAN :
          LET r == get_sheets_service(required, 0, creds_valid) IN
          IF r = "service"
          THEN pc' = "ensure_tabs" /\ UNCHANGED <<exc, exitCode>>
          ELSE Crash(r)
    /\ UNCHANGED <<cfg, sheet, conf, idx, obs, total_matches, wrote_any, sidx, summary,
                   calls, history>>
    /\ UNCHANGED <<rvars, pvars>>

RECURSIVE EnsureAll(_, _, _)
EnsureAll(sh, titles, header) ==
    IF titles = <<>> THEN sh
    ELSE EnsureAll(ensure_tab(sh, Head(titles), header), Tail(titles), header)

\* main 270-276: the four ensure_tab calls, the failAt-th of which raises
\* (none when failAt = 0).
EnsureTabs ==
    /\ pc = "ensure_tabs"
    /\ \E failAt \in 0..Len(TabOrder) :
          LET done == IF failAt = 0 THEN Len(TabOrder) ELSE failAt - 1 IN
          /\ sheet' = EnsureAll(sheet, SubSeq(TabOrder, 1, done), conf.fields)
          /\ calls' = [calls EXCEPT !.sheet = @ + (IF failAt = 0 THEN done ELSE failAt)]
          /\ IF failAt = 0
             THEN pc' = "fetch" /\ idx' = 1 /\ UNCHANGED <<exc, exitCode>>
             ELSE Crash("HttpError") /\ UNCHANGED idx
    /\ total_matches' = ZeroMatches
    /\ wrote_any' = FALSE
    /\ UNCHANGED <<cfg, conf, obs, sidx, summary, history>>
    /\ UNCHANGED <<rvars, pvars>>

\* main 278-280: fetch_latest_observation(station_id), two feed requests.
Fetch ==
    /\ pc = "fetch"
    /\ idx <= Len(conf.stations)
    /\ \E o \in FeedOutcomes :
          /\ calls' = [calls EXCEPT !.feed = @ + (IF o.kind = "std_error" THEN 1 ELSE 2)]
          /\ history' = Append(history,
                [station |-> conf.stations[idx], usable |-> o.usable,
                 fetched |-> o.kind = "obs", obs |-> o.obs, cells |-> <<>>, raw |-> FALSE,
                 done |-> FALSE])
          /\ IF o.kind = "obs"
             THEN obs' = o.obs /\ pc' = "write" /\ UNCHANGED <<exc, exitCode>>
             ELSE /\ Crash(IF o.kind = "parse_error" THEN "ValueError" ELSE "RequestException")
                  /\ UNCHANGED obs
    /\ UNCHANGED <<cfg, sheet, conf, idx, total_matches, wrote_any, sidx, summary>>
    /\ UNCHANGED <<rvars, pvars>>

\* main 294-295: the rules whose alert tab gets the row, in the order of flags.items().
AlertAppendsUnconditional(f) == RuleNames

AlertAppends(f) == SelectSeq(RuleNames, LAMBDA n : f[n].val)

\* main 283-297: the row, its append to the raw tab and to the alert tabs of
\* the rules that matched; the failAt-th append raises (none when failAt = 0).
Write ==
    /\ pc = "write"
    /\ LET station_id == conf.stations[idx]
           obs1 == ("station_id" :> Text) @@ obs
           obs2 == IF "wave_height_ft" \in DOMAIN obs1 /\ obs1["wave_height_ft"] # None
                   THEN [obs1 EXCEPT !["wave_height_ft"] = round_1(@)]
                   ELSE obs1
           r == DataRow(station_id, build_row(conf.fields, obs2))
           f == any_alerts_for_row(obs2)
           raised == \E n \in Rules : f[n].exc
           hits == IF raised THEN <<>> ELSE AlertAppends(f)
       IN \E failAt \in 0..(1 + Len(hits)) :
             LET done == IF failAt = 0 THEN 1 + Len(hits) ELSE failAt - 1
                 got(n) == \E j \in 1..Len(hits) : hits[j] = n /\ j + 1 <= done
                 s1 == IF done >= 1 THEN append_rows(sheet, RAW_TAB, <<r>>) ELSE sheet
             IN /\ sheet' = [s1 EXCEPT !.rows =
                                [t \in AllTabs |->
                                    IF \E n \in Rules : ALERT_TABS[n] = t /\ got(n)
                                    THEN Append(s1.rows[t], r) ELSE s1.rows[t]]]
                /\ total_matches' = [n \in Rules |-> total_matches[n] + (IF got(n) THEN 1 ELSE 0)]
                /\ wrote_any' = (wrote_any \/ done >= 1)
                /\ calls' = [calls EXCEPT !.sheet = @ + (IF failAt = 0 THEN done ELSE failAt)]
                /\ history' = [history EXCEPT ![Len(history)] =
                                  [@ EXCEPT !.obs = obs2, !.cells = r.cells,
                                            !.raw = (done >= 1),
                                            !.done = (failAt = 0 /\ ~raised)]]
                /\ IF failAt # 0 THEN Crash("HttpError") /\ UNCHANGED idx
                   ELSE IF raised THEN Crash("TypeError") /\ UNCHANGED idx
                   ELSE pc' = "fetch" /\ idx' = idx + 1 /\ UNCHANGED <<exc, exitCode>>
    /\ UNCHANGED <<cfg, conf, obs, sidx, summary>>
    /\ UNCHANGED <<rvars, pvars>>

\* main 278: the station list is exhausted.
LoopDone ==
    /\ pc = "fetch"
    /\ idx > Len(conf.stations)
    /\ pc' = "status"
    /\ sidx' = 1
    /\ UNCHANGED <<cfg, sheet, conf, idx, obs, total_matches, wrote_any, summary, exc,
                   exitCode, calls, history>>
    /\ UNCHANGED <<rvars, pvars>>

\* main 301: whether the tab of a rule gets the status line.
NeedsStatusAlways(n) == TRUE

NeedsStatus(n) == total_matches[n] = 0

\* main 300-302, a rule that needs the status line: write_status, which may raise.
StatusWrite ==
    /\ pc = "status"
    /\ sidx <= Len(RuleNames)
    /\ NeedsStatus(RuleNames[sidx])
    /\ calls' = [calls EXCEPT !.sheet = @ + 1]
    /\ \E ok \in BOOLEAN :
          IF ok
          THEN /\ sheet' = write_status(sheet, ALERT_TABS[RuleNames[sidx]])
               /\ sidx' = sidx + 1
               /\ UNCHANGED <<pc, exc, exitCode>>
          ELSE Crash("HttpError") /\ UNCHANGED <<sheet, sidx>>
    /\ UNCHANGED <<cfg, conf, idx, obs, total_matches, wrote_any, summary, history>>
    /\ UNCHANGED <<rvars, pvars>>

\* main 300-301, a rule that does not.
StatusSkip ==
    /\ pc = "status"
    /\ sidx <= Len(RuleNames)
    /\ ~NeedsStatus(RuleNames[sidx])
    /\ sidx' = sidx + 1
    /\ UNCHANGED <<cfg, sheet, pc, conf, idx, obs, total_matches, wrote_any, summary, exc,
                   exitCode, calls, history>>
    /\ UNCHANGED <<rvars, pvars>>

\* main 305-311: the console summary and return 0.
Summary ==
    /\ pc = "status"
    /\ sidx > Len(RuleNames)
    /\ summary' = IF wrote_any /\ \A n \in Rules : total_matches[n] = 0
                  THEN "ran, no alert matches" ELSE "matches"
    /\ pc' = "exit"
    /\ exitCode' = 0
    /\ UNCHANGED <<cfg, sheet, conf, idx, obs, total_matches, wrote_any, sidx, exc, calls,
                   history>>
    /\ UNCHANGED <<rvars, pvars>>

Next ==
    \/ LoadConfig
    \/ GetService
    \/ EnsureTabs
    \/ Fetch
    \/ Write
    \/ LoopDone
    \/ StatusWrite
    \/ StatusSkip
    \/ Summary

Init == OInit /\ RInit /\ PInit
Spec == Init /\ [][Next]_vars

\* The orchestrator at rest while the rules are evaluated on their own.
OIdle ==
    /\ cfg = Config(List(<<GoodId>>), Absent, Str(GoodId), Absent, Absent)
    /\ sheet = FreshSheet
    /\ pc = "load_config"
    /\ conf = NoConf
    /\ idx = 0
    /\ obs = EmptyRow
    /\ total_matches = ZeroMatches
    /\ wrote_any = FALSE
    /\ sidx = 0
    /\ summary = "none"
    /\ exc = NoExc
    /\ exitCode = -1
    /\ calls = [feed |-> 0, sheet |-> 0]
    /\ history = <<>>

RNext == Evaluate

RulesInit == OIdle /\ RInit /\ PInit

SpecRules == RulesInit /\ [][RNext]_vars

\* The parse of the feeds and the conversions, on their own.
PNext ==
    \/ ParseFeeds
    \/ Cardinal
    \/ Convert

ParseInit == OIdle /\ RInit /\ PInit

SpecParse == ParseInit /\ [][PNext]_vars

(***************************************************************************)
(* Properties of the run of main (Spec)                                    *)
(***************************************************************************)
DataRows(t) == SelectSeq(sheet.rows[t], LAMBDA r : r.kind = "data")
StatusRows(t) == SelectSeq(sheet.rows[t], LAMBDA r : r.kind = "status")
RowOf(e) == DataRow(e.station, e.cells)
RowsOf(es) == [i \in 1..Len(es) |-> RowOf(es[i])]
Matched(e, n) == RULE_FUNCS(e.obs)[n].val
\* The stations whose iteration of the loop ran to its end.
Written == SelectSeq(history, LAMBDA e : e.done)
Completed == pc = "exit" /\ exitCode = 0

\* C1: a failure while fetching, parsing or writing for one station does not
\* abort the run: when the run has ended, every station of the list has been
\* fetched, the ones after a failed station included.
C1_StationFailureDoesNotAbort ==
    (pc = "exit" /\ exc.at \in {"none", "fetch", "write", "status"})
        => \A i \in 1..Len(conf.stations) :
              i <= Len(history) /\ history[i].station = conf.stations[i]

\* C2: on every run that reaches completion each of the three alert tabs has
\* received a status row, whatever the number of matches.
C2_StatusRowOnEveryTab ==
    Completed => \A n \in Rules : StatusRows(ALERT_TABS[n]) # <<>>

\* C2, amended: on every run that reaches completion, an alert tab whose rule
\* matched no station has received exactly one row, the no-matches status
\* row; a tab whose rule matched has received its matching rows, one per
\* match, and no status row.
C2_StatusRowWhenNoMatches ==
    Completed =>
        \A n \in Rules :
            /\ total_matches[n] = 0 => sheet.rows[ALERT_TABS[n]] = <<StatusRow>>
            /\ total_matches[n] > 0 =>
                  /\ StatusRows(ALERT_TABS[n]) = <<>>
                  /\ Len(sheet.rows[ALERT_TABS[n]]) = total_matches[n]

\* A completed run in which Longboard matched and Shortboard did not.
C2_Witness ==
    /\ Completed
    /\ total_matches["Longboard"] > 0
    /\ total_matches["Shortboard"] = 0
    /\ StatusRows(ALERT_TABS["Longboard"]) = <<>>
    /\ StatusRows(ALERT_TABS["Shortboard"]) = <<StatusRow>>

\* C11: a station whose feed has no usable data row (no row at all, a row of
\* fewer than five columns, or no row with five numeric first columns) is
\* skipped: no row of it is appended to the raw-data tab, and so none to an
\* alert tab, which gets the row only after the raw-data tab has.
C11_UnusableFeedSkipped ==
    \A j \in 1..Len(history) : ~history[j].usable => ~history[j].raw

\* C3: each station processed has exactly one row in the raw-data tab, and
\* that row is in the alert tab of a rule exactly when the rule matched the
\* station's observation; every data row of an alert tab is the row of a
\* station whose observation satisfied the tab's rule, and each match counter
\* is the number of rows appended to its tab.
C3_RowsRouted ==
    /\ \A n \in Rules :
          LET rows == DataRows(ALERT_TABS[n]) IN
          /\ total_matches[n] = Len(rows)
          /\ \A i \in 1..Len(rows) :
                \E j \in 1..Len(history) :
                    /\ history[j].fetched
                    /\ rows[i] = RowOf(history[j])
                    /\ Matched(history[j], n)
    /\ (pc \in {"fetch", "status", "exit"} /\ exc.at # "write") =>
          /\ DataRows(RAW_TAB) = RowsOf(Written)
          /\ \A n \in Rules :
                DataRows(ALERT_TABS[n])
                    = RowsOf(SelectSeq(Written, LAMBDA e : Matched(e, n)))

\* A completed run over two stations: both rows in the raw tab, one of them in
\* the Longboard tab and none in the Shortboard tab.
C3_Witness ==
    /\ Completed
    /\ Len(Written) = 2
    /\ Len(DataRows(RAW_TAB)) = 2
    /\ total_matches["Longboard"] = 1
    /\ total_matches["Shortboard"] = 0
    /\ \E j \in 1..2 : Matched(history[j], "Longboard")
                         /\ DataRows(ALERT_TABS["Longboard"]) = <<RowOf(history[j])>>

Blank(x) == x.t = "str" /\ strip(x.v) = <<>>
NoStationList(c) ==
    \/ c.stations.t # "list" /\ c.station_id.t = "absent"
    \/ c.stations.t = "list" /\ c.stations.v = <<>>
    \/ c.stations.t # "list" /\ Blank(c.station_id)
NoDestination(c) ==
    /\ c.env_sheet.t = "absent" \/ c.env_sheet.v = <<>>
    /\ c.spreadsheet_id.t \in {"absent", "other"} \/ Blank(c.spreadsheet_id)

C5_ExitStatus ==
    pc = "exit" =>
        /\ exc = NoExc => exitCode = 0
        /\ exitCode # 0 =>
              \/ exc.at = "load_config"
              \/ NoStationList(cfg) \/ NoDestination(cfg)
              \/ exc.name = "CredentialsError"

(***************************************************************************)
(* Properties of the rules (SpecRules)                                     *)
(***************************************************************************)
Parses(r, k) == k \in DOMAIN r /\ r[k].t = "num"
ParsingAt(r, keys) == {i \in 1..Len(keys) : Parses(r, keys[i])}
\* The value under the first alias of keys that is present and a number.
FirstParseable(r, keys) ==
    IF ParsingAt(r, keys) = {} THEN None
    ELSE r[keys[CHOOSE i \in ParsingAt(r, keys) : \A j \in ParsingAt(r, keys) : i <= j]]
InWindow(x) == x # None /\ 2500 <= x.v /\ x.v <= 16000
AtLeast(x, c) == x # None /\ x.v >= c

\* What each rule requires, resolved from the record by the alias lists.
ReqPeriod(r) == FirstParseable(r, PeriodKeys)
ReqHeight(r) == FirstParseable(r, HeightKeys)
ReqDir(r) == FirstParseable(r, SwellDirKeys)
ReqWvht(r) == FirstParseable(r, WvhtKeys)
ReqSpDir(r) == FirstParseable(r, MeanDirKeys)

\* C6: rule evaluation never raises: on every record each of the three rules
\* returns a boolean, and returns false whenever a period, height or direction
\* it requires resolves under none of its aliases.
C6_RulesNeverRaise ==
    rpc = "evaluated" =>
        /\ \A n \in Rules : ~flags[n].exc /\ flags[n].val \in BOOLEAN
        /\ \A n \in {"Longboard", "Shortboard"} :
              (ReqPeriod(row) = None \/ ReqHeight(row) = None \/ ReqDir(row) = None)
                  => ~flags[n].val
        /\ (ReqWvht(row) = None \/ ReqSpDir(row) = None) => ~flags["Short Period"].val

\* A record with unparseable text and None under the period aliases and no
\* direction at all: no rule raised and none matched.
C6_Witness ==
    /\ rpc = "evaluated"
    /\ "swell_period_s" \in DOMAIN row /\ row["swell_period_s"] = Text
    /\ "SwP" \in DOMAIN row /\ row["SwP"] = None
    /\ "DPD" \in DOMAIN row /\ row["DPD"] = Empty
    /\ ReqDir(row) = None
    /\ \A n \in Rules : ~flags[n].exc /\ ~flags[n].val

\* C7: the Short-Period rule matches exactly when the total wave height is at
\* least 3.0 ft (3.0 included) and the direction lies in [25, 160].
C7_ShortPeriodInclusive ==
    rpc = "evaluated" =>
        (flags["Short Period"].val <=>
            (AtLeast(ReqWvht(row), 300) /\ InWindow(ReqSpDir(row))))

\* C8: Longboard matches exactly when the resolved period is >= 13.0 s, the
\* resolved height >= 0.7 ft and the resolved direction in [25, 160];
\* Shortboard the same with the height >= 1.6 ft; the thresholds are inclusive.
C8_LongPeriodThresholds ==
    rpc = "evaluated" =>
        /\ flags["Longboard"].val <=>
              (AtLeast(locals.period_s, 1300) /\ AtLeast(locals.height_ft, 70)
                  /\ InWindow(locals.dir_deg))
        /\ flags["Shortboard"].val <=>
              (AtLeast(locals.period_s, 1300) /\ AtLeast(locals.height_ft, 160)
                  /\ InWindow(locals.dir_deg))

\* Period exactly 13.0 s, height exactly 0.7 ft, direction exactly 160:
\* Longboard matches and Shortboard does not.
C8_Witness ==
    /\ rpc = "evaluated"
    /\ locals.period_s = Num(1300)
    /\ locals.height_ft = Num(70)
    /\ locals.dir_deg = Num(16000)
    /\ flags["Longboard"].val /\ ~flags["Shortboard"].val

SwellHeightKeys == <<"swell_height_ft", "SwH_ft", "SwH">>
SwellPeriodKeys == <<"swell_period_s", "SwP">>
WaveDirKeys == <<"swell_dir_deg_true", "SwD_deg", "mean_wave_dir_deg", "MWD">>

\* C9: each field resolves to the value of the first alias, in the order of the
\* alias list, that is present, non-empty and numerically parseable; so a
\* swell-specific height or period that parses is the one Longboard and
\* Shortboard are evaluated on, a general value is used only when no
\* swell-specific alias parses, and the wind direction only when no swell or
\* mean-wave direction parses.
C9_FieldResolution ==
    rpc = "evaluated" =>
        /\ locals.period_s = FirstParseable(row, PeriodKeys)
        /\ locals.height_ft = FirstParseable(row, HeightKeys)
        /\ locals.dir_deg = FirstParseable(row, SwellDirKeys)
        /\ ParsingAt(row, SwellHeightKeys) # {}
              => locals.height_ft = FirstParseable(row, SwellHeightKeys)
        /\ ParsingAt(row, SwellPeriodKeys) # {}
              => locals.period_s = FirstParseable(row, SwellPeriodKeys)
        /\ ParsingAt(row, WaveDirKeys) # {}
              => locals.dir_deg = FirstParseable(row, WaveDirKeys)
        /\ \A n \in {"Longboard", "Shortboard"} :
              flags[n].val =>
                  /\ AtLeast(FirstParseable(row, PeriodKeys), 1300)
                  /\ AtLeast(FirstParseable(row, HeightKeys), 70)
                  /\ InWindow(FirstParseable(row, SwellDirKeys))

\* A swell height of 0.69 ft beside a wave height of 3.0 ft, period and
\* direction good: the rules read 0.69 and Longboard does not match.
C9_Witness ==
    /\ rpc = "evaluated"
    /\ Parses(row, "swell_height_ft") /\ row["swell_height_ft"] = Num(69)
    /\ Parses(row, "wave_height_ft") /\ row["wave_height_ft"] = Num(300)
    /\ locals.height_ft = Num(69)
    /\ locals.period_s = Num(1300) /\ InWindow(locals.dir_deg)
    /\ ~flags["Longboard"].val

\* C10: the direction window is the closed interval [25, 160] for all three
\* rules: with the period and height conditions satisfied, a rule matches
\* exactly when its direction is in [25.0, 160.0].
C10_DirectionWindow ==
    rpc = "evaluated" =>
        /\ (AtLeast(ReqPeriod(row), 1300) /\ AtLeast(ReqHeight(row), 70))
              => (flags["Longboard"].val <=> InWindow(ReqDir(row)))
        /\ (AtLeast(ReqPeriod(row), 1300) /\ AtLeast(ReqHeight(row), 160))
              => (flags["Shortboard"].val <=> InWindow(ReqDir(row)))
        /\ AtLeast(ReqWvht(row), 300)
              => (flags["Short Period"].val <=> InWindow(ReqSpDir(row)))

(***************************************************************************)
(* Properties of the parse and the conversions (SpecParse)                 *)
(***************************************************************************)
Get(o, k) == IF k \in DOMAIN o THEN o[k] ELSE None
StdRow == _fetch_last_data_line(feeds.std)
SpecRow == _fetch_last_data_line(feeds.spec)
\* The newest standard row has the 11 columns the parse asks for, the newest
\* spectral row the 10.
StdParsed == StdRow.found /\ Len(StdRow.parts) >= 11
SpecParsed == SpecRow.found /\ Len(SpecRow.parts) >= 10
\* The total wave height (feet) and the mean wave direction each file gives.
StdHeight == IF StdParsed THEN round_1(m_to_ft(safe_float(StdRow.parts[9]))) ELSE None
StdDir == IF StdParsed /\ Len(StdRow.parts) > 11 THEN safe_float(StdRow.parts[12]) ELSE None
SpecHeight == IF SpecParsed THEN round_1(m_to_ft(safe_float(SpecRow.parts[6]))) ELSE None
SpecDir == IF SpecParsed THEN safe_float(SpecRow.parts[Len(SpecRow.parts)]) ELSE None
Parsed == ppc = "parsed" /\ outcome.exc = "none"

\* C12: when the standard and the spectral file both give a direction or a
\* height, the observation carries the value of the spectral file.
C12_SpectralPrecedence ==
    Parsed =>
        /\ (StdDir # None /\ SpecDir # None)
              => Get(outcome.val, "mean_wave_dir_deg") = SpecDir
        /\ (StdHeight # None /\ SpecHeight # None)
              => Get(outcome.val, "wave_height_ft") = SpecHeight

\* C12, amended: the total wave height and the mean wave direction of the
\* observation are the ones of the standard file whenever it gives them, and
\* the ones of the spectral file only when the standard file gives none; the
\* swell height and the swell period are the ones of the spectral file, which
\* alone has them.
C12_StandardPrecedence ==
    Parsed =>
        /\ Get(outcome.val, "mean_wave_dir_deg") = (IF StdDir # None THEN StdDir ELSE SpecDir)
        /\ Get(outcome.val, "wave_height_ft")
              = (IF StdHeight # None THEN StdHeight ELSE SpecHeight)
        /\ SpecParsed =>
              /\ Get(outcome.val, "swell_height_ft")
                    = round_1(m_to_ft(safe_float(SpecRow.parts[7])))
              /\ Get(outcome.val, "swell_period_s") = round_1(safe_float(SpecRow.parts[8]))
        /\ ~SpecParsed => DOMAIN outcome.val \cap {"swell_height_ft", "swell_period_s"} = {}

\* Both files give a height and a direction, different ones: 1.5 m and 90
\* degrees in the standard file, 1.6 m and 120 degrees in the spectral file;
\* the observation has 4.9 ft and 90 degrees.
C12_Witness ==
    /\ Parsed
    /\ StdHeight = Num(490) /\ SpecHeight = Num(520)
    /\ StdDir = Num(9000) /\ SpecDir = Num(12000)
    /\ outcome.val["wave_height_ft"] = Num(490)
    /\ outcome.val["mean_wave_dir_deg"] = Num(9000)
    /\ outcome.val["swell_height_ft"] = Num(160)

\* The compass point of a label.
PointOf(l) == dirs[l.v + 1]

\* C13: deg_to_cardinal gives the point of the 16 whose index is the
\* direction over 22.5 rounded to the nearest integer, ties up, modulo 16: the
\* direction (modulo 360) lies in [n * 22.5 - 11.25, n * 22.5 + 11.25) for the
\* index n of the point, or at 348.75 and above for N; 0 gives N, 22.5 NNE, a
\* tie k * 22.5 + 11.25 the higher point, 360 N; no direction gives no label.
C13_CompassTiesUp ==
    ppc = "labelled" =>
        /\ heading = None <=> compass = None
        /\ heading # None =>
              LET x == heading.v % 36000
                  n == compass.v
              IN /\ compass.t = "label" /\ n \in 0..15
                 /\ \/ n * 2250 - 1125 <= x /\ x < n * 2250 + 1125
                    \/ n = 0 /\ x >= 34875
                 /\ heading.v = 0 => PointOf(compass) = "N"
                 /\ heading.v = 2250 => PointOf(compass) = "NNE"
                 /\ heading.v = 36000 => PointOf(compass) = "N"
                 /\ heading.v \in 34876..36000 => PointOf(compass) = "N"
                 /\ \A k \in 0..15 :
                       x = k * 2250 + 1125 => PointOf(compass) = dirs[((k + 1) % 16) + 1]

\* The tie at 11.25 degrees gives NNE, the one at 348.75 gives N.
C13_Witness ==
    /\ ppc = "labelled"
    /\ \/ heading = Num(1125) /\ PointOf(compass) = "NNE"
       \/ heading = Num(34875) /\ PointOf(compass) = "N"

\* C14: the height written is the height in metres times 3.28084 rounded to
\* one decimal, halves up, with no intermediate rounding changing the result.
C14_RoundHalfUp ==
    (ppc = "converted" /\ metres # None) =>
        feet = Num(10 * ((metres.v * FT_PER_M + 500000) \div 1000000))

====
